---------------------------- MODULE Spec2Model ----------------------------
(***************************************************************************)
(* A model of namedzip/namedzip.py: the four module-level entry points     *)
(* (namedzip, namedzip_longest, _namedzip_v1, _namedzip_longest_v1), the   *)
(* factory closures they return, and the generator that turns the tuples   *)
(* of zip / itertools.zip_longest into named tuple objects.                *)
(*                                                                         *)
(* One behaviour is one use of the module: a call of one entry point with  *)
(* some arguments, possibly a call of the factory it returned, and then a  *)
(* number of pulls (next()) on the generator object.                       *)
(***************************************************************************)
EXTENDS Integers, Sequences, FiniteSets

\* ------------------------------------------------------------------ bounds
MaxSeqs == 3
MaxFields == 3
MaxLen == 2
MaxPulls == 4

\* ------------------------------------------------------------------ values
\* Every Python value of the model is a triple <<kind, k, i>>, so that any two
\* values can be compared.  Elem(k, i) is the element at index i of the k-th
\* iterable: distinct places hold distinct values, except where None is put.
NoneV == <<"None", 0, 0>>
FillV == <<"fill", 0, 0>>
Elem(k, i) == <<"elem", k, i>>
Dflt(k) == <<"default", k, 0>>
Emb(k) == <<"embedded", k, 0>>
\* sentinel = object(): a value no caller-supplied value is identical to.
sentinel == <<"sentinel", 0, 0>>

\* The iterables a caller may pass as the k-th one: a list of length 0..MaxLen
\* whose first element may be None.
SourcesFor(k) ==
    { [i \in 1..n |-> IF i = 1 /\ b THEN NoneV ELSE Elem(k, i)] :
        n \in 0..MaxLen, b \in BOOLEAN }

RECURSIVE IterableTuples(_)
IterableTuples(n) ==
    IF n = 0 THEN { <<>> }
    ELSE { Append(t, s) : t \in IterableTuples(n - 1), s \in SourcesFor(n) }

\* *iterables: any number 0..MaxSeqs of iterables.
Iterables == UNION { IterableTuples(n) : n \in 0..MaxSeqs }

\* The named_tuple class: its number of _fields and how many trailing fields
\* carry a default (_field_defaults); NotANamedTuple is an argument (or, for
\* the v1 functions, a typename/field_names pair) that gives no such class.
NotANamedTuple == [ok |-> FALSE, nfields |-> 0, ndefaults |-> 0]
NamedTuples ==
    { [ok |-> TRUE, nfields |-> n, ndefaults |-> d] :
        n \in 0..MaxFields, d \in 0..MaxFields } \cup { NotANamedTuple }

\* The defaults keyword: None, or a table of 0..MaxFields+1 values.
NoDefaults == [isNone |-> TRUE, val |-> <<>>]
DefaultsTables ==
    { [isNone |-> FALSE, val |-> [k \in 1..m |-> Dflt(k)]] : m \in 0..(MaxFields + 1) }
        \cup { NoDefaults }

FunctionNames == { "namedzip", "namedzip_longest", "_namedzip_v1", "_namedzip_longest_v1" }

VARIABLES
    fn,            \* the entry point called
    named_tuple,   \* the named tuple class (given, or built by namedtuple())
    args,          \* *iterables of the entry point's call
    kw_fillvalue,  \* fillvalue keyword of the call
    kw_defaults,   \* defaults keyword of the call
    pc,            \* "start", "factory" (a function was returned),
                   \* "generator" (a generator object was returned), "done"
    result,        \* what the last call returned or raised
    fillvalue,     \* the closure's fillvalue (after the override of line 156)
    iterables,     \* *iterables the factory was called with
    zipped,        \* the zip / zip_longest object
    gen_defaults,  \* defaults argument of the generator
    gen,           \* generator state: "none", "created", "suspended", "done", "raised"
    records,       \* the named tuples yielded so far
    lastPull,      \* outcome of the last next(): "none", "record", "StopIteration",
                   \* "TypeError", "IndexError"
    npulls         \* number of next() calls so far

vars == << fn, named_tuple, args, kw_fillvalue, kw_defaults, pc, result, fillvalue,
           iterables, zipped, gen_defaults, gen, records, lastPull, npulls >>

NoZip == [type_longest |-> FALSE, fillvalue |-> NoneV, pos |-> <<>>, active |-> <<>>]

\* Python truth value of the defaults argument: None and () are false.
Truthy(d) == ~d.isNone /\ Len(d.val) > 0

Init ==
    /\ fn \in FunctionNames
    /\ named_tuple \in NamedTuples
    /\ named_tuple.ndefaults <= named_tuple.nfields
    \* only a class passed in by the caller can carry embedded defaults here:
    \* _namedzip_longest_v1 pops "defaults" before it calls namedtuple()
    /\ fn \in { "_namedzip_v1", "_namedzip_longest_v1" } => named_tuple.ndefaults = 0
    /\ args \in Iterables
    \* namedzip and _namedzip_v1 take no fillvalue / defaults keyword
    /\ kw_fillvalue \in IF fn \in { "namedzip_longest", "_namedzip_longest_v1" }
                        THEN { NoneV, FillV } ELSE { NoneV }
    /\ kw_defaults \in IF fn \in { "namedzip_longest", "_namedzip_longest_v1" }
                       THEN DefaultsTables ELSE { NoDefaults }
    /\ pc = "start"
    /\ result = "pending"
    /\ fillvalue = kw_fillvalue
    /\ iterables = <<>>
    /\ zipped = NoZip
    /\ gen_defaults = NoDefaults
    /\ gen = "none"
    /\ records = <<>>
    /\ lastPull = "none"
    /\ npulls = 0

inputs == << fn, named_tuple, args, kw_fillvalue, kw_defaults >>

\* ----------------------------------------------------------------- helpers
\* _verify_named_tuple: TRUE when no TypeError is raised.
verify_named_tuple(nt) == nt.ok

\* Mutant: only too few iterables are rejected.
compare_too_few_only(iterable_count, field_count) ==
    iterable_count >= field_count

\* _compare_iterables_to_fields: TRUE when no ValueError is raised.
compare_iterables_to_fields(iterable_count, field_count) ==
    iterable_count = field_count

\* Mutant: the type_longest flag is ignored and zip_longest always used.
create_zip_always_longest(its, fv, type_longest) ==
    [ type_longest |-> TRUE,
      fillvalue |-> fv,
      pos |-> [k \in 1..Len(its) |-> 0],
      active |-> [k \in 1..Len(its) |-> TRUE] ]

\* _create_zip: the zip or zip_longest object over the iterables.  Creating it
\* calls iter() on every iterable and next() on none: all positions are 0.
create_zip(its, fv, type_longest) ==
    [ type_longest |-> type_longest,
      fillvalue |-> fv,
      pos |-> [k \in 1..Len(its) |-> 0],
      active |-> [k \in 1..Len(its) |-> TRUE] ]

\* next() of a zip object: the iterables are advanced in argument order, and
\* the first one found exhausted ends the iteration; the ones before it have
\* been advanced already.  zip() of no iterables is exhausted at once.
RECURSIVE zip_step(_, _, _, _)
zip_step(its, z, k, vals) ==
    IF k > Len(its) THEN [stop |-> FALSE, vals |-> vals, z |-> z]
    ELSE IF z.pos[k] < Len(its[k])
         THEN zip_step(its, [z EXCEPT !.pos[k] = @ + 1], k + 1,
                       Append(vals, its[k][z.pos[k] + 1]))
         ELSE [stop |-> TRUE, vals |-> <<>>, z |-> z]

\* Mutant: zip() of no iterables never ends (it yields empty tuples).
zip_next_no_empty_case(its, z) == zip_step(its, z, 1, <<>>)

\* Mutant: the iterables are all checked for exhaustion before any of them is
\* advanced, so the ending next() consumes nothing.
zip_next_peek_first(its, z) ==
    IF Len(its) = 0 \/ \E k \in 1..Len(its) : z.pos[k] >= Len(its[k])
    THEN [stop |-> TRUE, vals |-> <<>>, z |-> z]
    ELSE zip_step(its, z, 1, <<>>)

zip_next(its, z) ==
    IF Len(its) = 0 THEN [stop |-> TRUE, vals |-> <<>>, z |-> z]
    ELSE zip_step(its, z, 1, <<>>)

\* next() of a zip_longest object: an iterable found exhausted is replaced by
\* the fill value from then on and is not asked again; the iteration ends when
\* the last active iterable is found exhausted.
NumActive(z) == Cardinality({ k \in DOMAIN z.active : z.active[k] })

RECURSIVE zip_longest_step(_, _, _, _)
zip_longest_step(its, z, k, vals) ==
    IF k > Len(its) THEN [stop |-> FALSE, vals |-> vals, z |-> z]
    ELSE IF ~z.active[k]
         THEN zip_longest_step(its, z, k + 1, Append(vals, z.fillvalue))
    ELSE IF z.pos[k] < Len(its[k])
         THEN zip_longest_step(its, [z EXCEPT !.pos[k] = @ + 1], k + 1,
                               Append(vals, its[k][z.pos[k] + 1]))
    ELSE LET z2 == [z EXCEPT !.active[k] = FALSE]
         IN  IF NumActive(z2) = 0
             THEN [stop |-> TRUE, vals |-> <<>>, z |-> z2]
             ELSE zip_longest_step(its, z2, k + 1, Append(vals, z.fillvalue))

zip_longest_next(its, z) ==
    IF Len(its) = 0 \/ NumActive(z) = 0 THEN [stop |-> TRUE, vals |-> <<>>, z |-> z]
    ELSE zip_longest_step(its, z, 1, <<>>)

zipped_next(its, z) ==
    IF z.type_longest THEN zip_longest_next(its, z) ELSE zip_next(its, z)

\* Mutant: None values are replaced instead of the sentinel.
replace_none(vals, d) ==
    IF Truthy(d)
    THEN [i \in 1..Len(vals) |-> IF vals[i] # NoneV THEN vals[i] ELSE d.val[i]]
    ELSE vals

\* Line 251-252 of _namedzip_generator: with a true defaults argument every
\* value that is the sentinel is replaced by the default of its index.
replace_sentinel(vals, d) ==
    IF Truthy(d)
    THEN [i \in 1..Len(vals) |-> IF vals[i] # sentinel THEN vals[i] ELSE d.val[i]]
    ELSE vals

\* defaults[i] of line 252 raises IndexError past the end of the table.
replace_raises(vals, d) ==
    /\ Truthy(d)
    /\ \E i \in 1..Len(vals) : vals[i] = sentinel /\ i > Len(d.val)

\* named_tuple(*vals): the class accepts as many values as it has fields, less
\* the trailing fields that carry a default; anything else is a TypeError.
named_tuple_accepts(nt, vals) ==
    /\ Len(vals) <= nt.nfields
    /\ Len(vals) >= nt.nfields - nt.ndefaults

named_tuple_new(nt, vals) ==
    [k \in 1..nt.nfields |-> IF k <= Len(vals) THEN vals[k] ELSE Emb(k)]

\* Mutant: a finished generator runs its loop again on the next next().
never_finished(g) == FALSE

\* A generator whose body has returned or raised is finished: next() raises
\* StopIteration and runs no code of the body.
finished(g) == g \in { "done", "raised" }

\* _set_defaults: [raises, defaults].  No entry point calls it.
set_defaults(d, fv, nt) ==
    IF ~d.isNone
    THEN IF Len(d.val) > nt.nfields
         THEN [raises |-> TRUE, defaults |-> d]
         ELSE IF nt.nfields > Len(d.val)
         THEN [raises |-> FALSE,
               defaults |-> [isNone |-> FALSE,
                             val |-> [k \in 1..nt.nfields |->
                                        IF k <= nt.nfields - Len(d.val) THEN fv
                                        ELSE d.val[k - (nt.nfields - Len(d.val))]]]]
         ELSE [raises |-> FALSE, defaults |-> d]
    ELSE IF nt.ndefaults > 0
         THEN [raises |-> FALSE,
               defaults |-> [isNone |-> FALSE,
                             val |-> [k \in 1..nt.nfields |->
                                        IF k > nt.nfields - nt.ndefaults THEN Emb(k)
                                        ELSE fv]]]
         ELSE [raises |-> FALSE, defaults |-> d]

\* --------------------------------------------------------- factory closures
\* _namedzip_factory of namedzip (lines 41-44); nothing of the generator's
\* body runs until the first next().
namedzip_factory(its) ==
    /\ iterables' = its
    /\ IF compare_iterables_to_fields(Len(its), named_tuple.nfields)
       THEN /\ zipped' = create_zip(its, NoneV, FALSE)
            /\ gen_defaults' = NoDefaults
            /\ gen' = "created"
            /\ result' = "generator"
            /\ pc' = "generator"
       ELSE /\ result' = "ValueError_iterables"
            /\ pc' = "done"
            /\ UNCHANGED << zipped, gen_defaults, gen >>

\* _namedzip_factory of _namedzip_v1 (lines 87-90).
namedzip_v1_factory(its) ==
    /\ iterables' = its
    /\ IF compare_iterables_to_fields(Len(its), named_tuple.nfields)
       THEN /\ zipped' = create_zip(its, NoneV, FALSE)
            /\ gen_defaults' = NoDefaults
            /\ gen' = "created"
            /\ result' = "generator"
            /\ pc' = "generator"
       ELSE /\ result' = "ValueError_iterables"
            /\ pc' = "done"
            /\ UNCHANGED << zipped, gen_defaults, gen >>

\* _namedzip_longest_factory of _namedzip_longest_v1 (lines 158-161), with the
\* closure's fillvalue fv and defaults d.
namedzip_longest_factory(its, fv, d) ==
    /\ iterables' = its
    /\ IF compare_iterables_to_fields(Len(its), named_tuple.nfields)
       THEN /\ zipped' = create_zip(its, fv, TRUE)
            /\ gen_defaults' = d
            /\ gen' = "created"
            /\ result' = "generator"
            /\ pc' = "generator"
       ELSE /\ result' = "ValueError_iterables"
            /\ pc' = "done"
            /\ UNCHANGED << zipped, gen_defaults, gen >>

Raise(exc) ==
    /\ result' = exc
    /\ pc' = "done"
    /\ UNCHANGED << iterables, zipped, gen_defaults, gen >>

ReturnFactory ==
    /\ result' = "function"
    /\ pc' = "factory"
    /\ UNCHANGED << iterables, zipped, gen_defaults, gen >>

\* ------------------------------------------------------------- entry points
namedzip ==
    /\ pc = "start"
    /\ fn = "namedzip"
    /\ IF ~verify_named_tuple(named_tuple) THEN Raise("TypeError")
       ELSE IF Len(args) > 0 THEN namedzip_factory(args)
       ELSE ReturnFactory
    /\ UNCHANGED << inputs, fillvalue, records, lastPull, npulls >>

\* def namedzip_longest(named_tuple, *iterables, **kwargs): pass
namedzip_longest ==
    /\ pc = "start"
    /\ fn = "namedzip_longest"
    /\ result' = "None"
    /\ pc' = "done"
    /\ UNCHANGED << inputs, fillvalue, iterables, zipped, gen_defaults, gen,
                    records, lastPull, npulls >>

\* named_tuple.ok = FALSE stands for a typename / field_names pair that
\* collections.namedtuple rejects.
namedzip_v1 ==
    /\ pc = "start"
    /\ fn = "_namedzip_v1"
    /\ IF ~named_tuple.ok THEN Raise("ValueError_namedtuple")
       ELSE IF Len(args) > 0 THEN namedzip_v1_factory(args)
       ELSE ReturnFactory
    /\ UNCHANGED << inputs, fillvalue, records, lastPull, npulls >>

\* Lines 148-156: the fillvalue the closure keeps.
longest_v1_fillvalue(fv, d) == IF ~d.isNone THEN sentinel ELSE fv

\* Line 148: TRUE when the defaults ValueError is raised.
longest_v1_defaults_mismatch(d, nt) == Truthy(d) /\ Len(d.val) # nt.nfields

namedzip_longest_v1 ==
    /\ pc = "start"
    /\ fn = "_namedzip_longest_v1"
    /\ IF ~named_tuple.ok
       THEN Raise("ValueError_namedtuple") /\ UNCHANGED fillvalue
       ELSE IF longest_v1_defaults_mismatch(kw_defaults, named_tuple)
       THEN Raise("ValueError_defaults") /\ UNCHANGED fillvalue
       ELSE /\ fillvalue' = longest_v1_fillvalue(kw_fillvalue, kw_defaults)
            /\ IF Len(args) > 0
               THEN namedzip_longest_factory(args, fillvalue', kw_defaults)
               ELSE ReturnFactory
    /\ UNCHANGED << inputs, records, lastPull, npulls >>

\* ------------------------------------------- calling a returned factory
namedzip_factory_call ==
    /\ pc = "factory"
    /\ fn = "namedzip"
    /\ \E its \in Iterables : namedzip_factory(its)
    /\ UNCHANGED << inputs, fillvalue, records, lastPull, npulls >>

namedzip_v1_factory_call ==
    /\ pc = "factory"
    /\ fn = "_namedzip_v1"
    /\ \E its \in Iterables : namedzip_v1_factory(its)
    /\ UNCHANGED << inputs, fillvalue, records, lastPull, npulls >>

namedzip_longest_factory_call ==
    /\ pc = "factory"
    /\ fn = "_namedzip_longest_v1"
    /\ \E its \in Iterables : namedzip_longest_factory(its, fillvalue, kw_defaults)
    /\ UNCHANGED << inputs, fillvalue, records, lastPull, npulls >>

\* ---------------------------------------------------------------- generator
\* One next() on the generator object of _namedzip_generator.
namedzip_generator ==
    /\ pc = "generator"
    /\ npulls < MaxPulls
    /\ npulls' = npulls + 1
    /\ IF finished(gen)
       THEN /\ lastPull' = "StopIteration"
            /\ UNCHANGED << zipped, gen, records >>
       ELSE LET r == zipped_next(iterables, zipped)
                vals == replace_sentinel(r.vals, gen_defaults)
            IN  /\ zipped' = r.z
                /\ IF r.stop
                   THEN /\ gen' = "done"
                        /\ lastPull' = "StopIteration"
                        /\ UNCHANGED records
                   ELSE IF replace_raises(r.vals, gen_defaults)
                   THEN /\ gen' = "raised"
                        /\ lastPull' = "IndexError"
                        /\ UNCHANGED records
                   ELSE IF named_tuple_accepts(named_tuple, vals)
                   THEN /\ records' = Append(records, named_tuple_new(named_tuple, vals))
                        /\ gen' = "suspended"
                        /\ lastPull' = "record"
                   ELSE /\ gen' = "raised"
                        /\ lastPull' = "TypeError"
                        /\ UNCHANGED records
    /\ UNCHANGED << inputs, pc, result, fillvalue, iterables, gen_defaults >>

Next ==
    \/ namedzip
    \/ namedzip_longest
    \/ namedzip_v1
    \/ namedzip_longest_v1
    \/ namedzip_factory_call
    \/ namedzip_v1_factory_call
    \/ namedzip_longest_factory_call
    \/ namedzip_generator

Spec == Init /\ [][Next]_vars

\* --------------------------------------------------------------- properties
Strict == { "namedzip", "_namedzip_v1" }
FillTolerant == { "namedzip_longest", "_namedzip_longest_v1" }
\* The entry points that have a body.
Implemented == { "namedzip", "_namedzip_v1", "_namedzip_longest_v1" }

nfields == named_tuple.nfields
pos == zipped.pos

SeqLens(its) == { Len(its[k]) : k \in 1..Len(its) }
MinLen(its) == CHOOSE m \in SeqLens(its) : \A n \in SeqLens(its) : m <= n
MaxLenOf(its) == CHOOSE m \in SeqLens(its) : \A n \in SeqLens(its) : m >= n

\* The defaults keyword is None or a table with one entry per field.
DefaultsFit == kw_defaults.isNone \/ Len(kw_defaults.val) = nfields

\* No generator exists, nothing was yielded and no iterable was touched.
Untouched == records = <<>> /\ npulls = 0 /\ gen = "none" /\ zipped = NoZip

\* Row i of the iterables: (seq_1[i], ..., seq_N[i]).
Row(its, i) == [k \in 1..Len(its) |-> its[k][i]]

\* C1, as stated: for the strict and the fill-tolerant entry point, whenever the
\* number of input sequences of a call differs from the number of fields, the
\* call fails with the arity ValueError, with no generator created, no element
\* pulled and no record produced.
C1_ArityErrorWheneverCountsDiffer ==
    ( /\ pc # "start"
      /\ fn \in Implemented
      /\ named_tuple.ok
      /\ DefaultsFit
      /\ Len(iterables) # nfields )
    => (result = "ValueError_iterables" /\ Untouched)

\* C1, amended: a call that passes no input sequence returns the factory
\* function without comparing the counts; whenever the factory runs (at once
\* when at least one sequence is passed, or when the returned factory is
\* called) with a sequence count that differs from the field count, it raises
\* the arity ValueError with no generator created, no element pulled and no
\* record produced; the error is never raised after a pull.  namedzip_longest
\* has no body and returns None without any check.
C1_ArityErrorWhenFactoryRuns ==
    /\ ( /\ pc # "start"
         /\ fn \in Implemented
         /\ named_tuple.ok
         /\ DefaultsFit
         /\ Len(iterables) # nfields )
       => \/ (result = "ValueError_iterables" /\ pc = "done" /\ Untouched)
          \/ (result = "function" /\ pc = "factory" /\ Len(args) = 0
                /\ iterables = <<>> /\ Untouched)
    /\ result = "ValueError_iterables" => (Len(iterables) # nfields /\ Untouched)
    /\ (fn = "namedzip_longest" /\ pc # "start") => (result = "None" /\ Untouched)

\* C1 witness: the arity error was raised for a call that passed a non-empty
\* sequence, and nothing was pulled from it.
C1_Witness ==
    /\ result = "ValueError_iterables"
    /\ Len(iterables) > nfields
    /\ \E k \in 1..Len(iterables) : Len(iterables[k]) > 0
    /\ Untouched

\* C2: for N >= 1 sequences and N fields, strict aggregation yields exactly
\* min(len) records, record i is (seq_1[i], ..., seq_N[i]) in field order, and
\* no later element of a longer sequence is in any record.
C2_StrictRecords ==
    ( fn \in Strict /\ pc = "generator" /\ Len(iterables) >= 1 )
    => /\ Len(records) <= MinLen(iterables)
       /\ \A i \in 1..Len(records) : records[i] = Row(iterables, i)
       /\ gen # "done" => Len(records) = npulls
       /\ gen = "done" => Len(records) = MinLen(iterables)
       /\ npulls > MinLen(iterables) => gen = "done"

\* C2 witness: namedzip over sequences of unequal length ran to exhaustion and
\* yielded at least one record.
C2_Witness ==
    /\ fn = "namedzip"
    /\ gen = "done"
    /\ Len(records) >= 1
    /\ Len(iterables) >= 2
    /\ \E k \in 1..Len(iterables) : Len(iterables[k]) > Len(records)

\* C3: for every call of a fill-tolerant entry point with N >= 1 sequences, N
\* fields and a defaults keyword that is None or has N entries, the call
\* returns a sequence of records whose length is max(len).
C3_LongestYieldsMaxLen ==
    ( /\ pc # "start"
      /\ fn \in FillTolerant
      /\ named_tuple.ok
      /\ Len(args) >= 1
      /\ Len(args) = nfields
      /\ DefaultsFit )
    => /\ result = "generator"
       /\ gen # "done" => Len(records) = npulls
       /\ gen = "done" => Len(records) = MaxLenOf(iterables)

C5_DefaultsErrorWheneverSizeDiffers ==
    ( /\ pc # "start"
      /\ fn = "_namedzip_longest_v1"
      /\ named_tuple.ok
      /\ ~kw_defaults.isNone
      /\ Len(kw_defaults.val) # nfields )
    => (result = "ValueError_defaults" /\ Untouched)

\* The fill of field k that _set_defaults derives when defaults is None.
EmbeddedFill(k) ==
    LET t == set_defaults(kw_defaults, kw_fillvalue, named_tuple).defaults
    IN  IF t.isNone THEN kw_fillvalue ELSE t.val[k]

\* C6: namedzip_longest called with a named tuple class of N fields, some of
\* them with an embedded default, N sequences of unequal length and no
\* defaults table returns the records of the sequences, a slot past the end of
\* its sequence holding the field's embedded default if it has one and
\* fillvalue otherwise.
C6_EmbeddedDefaultsFill ==
    ( /\ pc # "start"
      /\ fn = "namedzip_longest"
      /\ named_tuple.ok
      /\ named_tuple.ndefaults >= 1
      /\ Len(args) = nfields
      /\ MinLen(args) < MaxLenOf(args)
      /\ kw_defaults.isNone )
    => /\ result = "generator"
       /\ gen = "done" => Len(records) = MaxLenOf(iterables)
       /\ \A i \in 1..Len(records) : \A k \in 1..nfields :
             records[i][k] = IF i <= Len(iterables[k]) THEN iterables[k][i]
                             ELSE EmbeddedFill(k)

\* C7, as stated: a call of an entry point with zero input sequences and a
\* record type of zero fields returns a sequence of records that is empty and
\* reports exhaustion on the first pull, without an error.
C7_ZeroInputsEmptySequence ==
    ( /\ pc # "start"
      /\ fn \in Implemented
      /\ named_tuple.ok
      /\ nfields = 0
      /\ DefaultsFit
      /\ Len(args) = 0
      /\ iterables = <<>> )
    => /\ result = "generator"
       /\ records = <<>>
       /\ npulls >= 1 => lastPull = "StopIteration"

\* C7, amended: a call of namedzip, _namedzip_v1 or _namedzip_longest_v1 with
\* zero input sequences returns the factory function, not a sequence, whatever
\* the number of fields; calling that factory with zero sequences for a record
\* type of zero fields returns a sequence of records that is empty and reports
\* exhaustion on the first pull, without an error.
C7_ZeroInputsReturnFactory ==
    ( /\ pc # "start"
      /\ fn \in Implemented
      /\ named_tuple.ok
      /\ DefaultsFit
      /\ Len(args) = 0 )
    => /\ pc = "factory" => (result = "function" /\ Untouched)
       /\ pc # "factory" => result \in { "generator", "ValueError_iterables" }
       /\ ( pc # "factory" /\ nfields = 0 /\ iterables = <<>> )
          => /\ result = "generator"
             /\ pc = "generator"
             /\ records = <<>>
             /\ lastPull \in { "none", "StopIteration" }
             /\ npulls >= 1 => gen = "done"

\* C7 witness: the factory returned for zero sequences was called with zero
\* sequences for a class of zero fields, and the generator was pulled.
C7_Witness ==
    /\ fn = "namedzip"
    /\ named_tuple.ok
    /\ nfields = 0
    /\ Len(args) = 0
    /\ pc = "generator"
    /\ iterables = <<>>
    /\ npulls >= 1
    /\ gen = "done"
    /\ records = <<>>

\* C8: once a pull on the generator has reported exhaustion, every later pull
\* reports exhaustion, yields no record and advances no iterable.
C8_SinglePass ==
    [][ gen = "done"
        => /\ gen' = "done"
           /\ records' = records
           /\ zipped' = zipped
           /\ lastPull' = "StopIteration" ]_vars

\* C8 witness: a strict generator that ended while an element of some sequence
\* was still unread has been pulled again.
C8_Witness ==
    /\ gen = "done"
    /\ lastPull = "StopIteration"
    /\ npulls >= Len(records) + 2
    /\ \E k \in 1..Len(iterables) : pos[k] < Len(iterables[k])

\* C9, as stated: in strict mode, after any number of pulls, the ending pull
\* included, every iterable has been advanced by the number of records
\* yielded: no element was consumed that is in no record.
C9_AllAdvancedAlike ==
    ( fn \in Strict /\ pc = "generator" )
    => \A k \in 1..Len(iterables) : pos[k] = Len(records)

\* The first iterable, in argument order, that has exactly n elements (0 if
\* there is none).
FirstOfLen(its, n) ==
    IF \E k \in 1..Len(its) : Len(its[k]) = n
    THEN CHOOSE k \in 1..Len(its) :
            Len(its[k]) = n /\ \A j \in 1..(k - 1) : Len(its[j]) # n
    ELSE 0

\* C9, amended: no iterable is read at call time, and every pull that yields a
\* record advances every iterable by exactly one position; on the pull that
\* ends a strict iteration the iterables before the first exhausted one, in
\* argument order, have each been advanced one more position, so each of them
\* has lost one element that is in no record, and the others are not advanced.
C9_StrictAdvance ==
    ( fn \in Strict /\ pc = "generator" )
    => /\ npulls = 0 => \A k \in 1..Len(iterables) : pos[k] = 0
       /\ gen # "done"
          => /\ Len(records) = npulls
             /\ \A k \in 1..Len(iterables) : pos[k] = Len(records)
       /\ ( gen = "done" /\ Len(iterables) >= 1 )
          => LET k0 == FirstOfLen(iterables, Len(records))
             IN  /\ k0 # 0
                 /\ \A k \in 1..Len(iterables) :
                       pos[k] = IF k < k0 THEN Len(records) + 1 ELSE Len(records)

\* C9 witness: a strict iteration has ended with an element consumed from one
\* iterable and placed in no record.
C9_Witness ==
    /\ fn \in Strict
    /\ gen = "done"
    /\ Len(records) >= 1
    /\ \E k \in 1..Len(iterables) : pos[k] = Len(records) + 1

\* C10: no field of a record produced by _namedzip_longest_v1 is the sentinel,
\* for every fillvalue and defaults table the call accepts.
C10_NoSentinelInRecords ==
    fn \in FillTolerant
    => \A i \in 1..Len(records) : \A k \in 1..nfields : records[i][k] # sentinel
=============================================================================
